---- MODULE Spec2Model ----
(***************************************************************************)
(* CQueue: the count-based circular_queue<int> (front, rear, size and      *)
(* capacity over a heap array, overwrite-oldest on a full enqueue).        *)
(* Every member function is a pure operator over a queue record, computed  *)
(* statement by statement as the C++ does, and one action per public call  *)
(* applies it to the single queue object of the program.  The sentinel-    *)
(* index circular_queue<int> (front, rear over a raw array, no count) is   *)
(* modelled the same way, driven beside the count-based one and on its own. *)
(***************************************************************************)
EXTENDS Integers, Sequences, FiniteSets, TLC

\* ------------------------------------------------------------------ bounds
MaxCap == 3          \* largest capacity passed to the constructor / resize
MaxVal == 2          \* enqueued values are 1..MaxVal
MaxWild == 2         \* cap on front while it runs away on a capacity-0 queue
MaxLater == 2        \* length of the call sequences two queues are compared on

\* --------------------------------------------------------- program constants
Sentinel == -1       \* front(-1), rear(-1): "no element" index
DefaultT == 0        \* T{} : value-initialised slot of make_unique<T[]>(n)
Uninit == -2         \* marks a slot of new T[size] that was never written

Values == 1..MaxVal
CapArgs == Sentinel..MaxCap      \* int arguments tried for n, new_capacity, index

\* ------------------------------------------------------------ C++ arithmetic
\* a % b of C++ (truncating) for b # 0.  For b = 0 the operation is undefined:
\* RemC gives the result of a build whose integer division does not trap
\* (quotient 0, so the remainder is a); the trapping build is a separate outcome
\* of the caller.
RemC(a, b) ==
    IF b = 0 THEN a
    ELSE LET m == IF b < 0 THEN -b ELSE b
         IN  IF a >= 0 THEN a % m ELSE -((-a) % m)

\* arr[i] read; outside the allocation the read is undefined (flagged by OobRead)
ReadArr(a, i) == IF i \in DOMAIN a THEN a[i] ELSE DefaultT
OobRead(a, i) == i \notin DOMAIN a

\* arr[i] = v; a write outside the allocation does not land in the array
StoreArr(a, i, v) == IF i \in DOMAIN a THEN [a EXCEPT ![i] = v] ELSE a

\* std::make_unique<T[]>(n): n value-initialised slots, indices 0..n-1
NewArr(n) == [i \in 0..(n - 1) |-> DefaultT]

\* std::to_string(int): the decimal digits, most significant first, after a
\* "-" for a negative number
Digit(d) == <<"0", "1", "2", "3", "4", "5", "6", "7", "8", "9">>[d + 1]
RECURSIVE NatToString(_)
NatToString(n) == IF n < 10 THEN <<Digit(n)>>
                  ELSE Append(NatToString(n \div 10), Digit(n % 10))
to_string(n) == IF n < 0 THEN <<"-">> \o NatToString(-n) ELSE NatToString(n)

\* result of a call: kind "ok" (returned normally, val is the returned value),
\* the name of the exception thrown, or "trap" (the process was killed);
\* ub: the call executed undefined behaviour; log: the strings handed to the
\* logger during the call, in order; seen: the object as it was at each of
\* those logger calls
Ret(q, kind, val, ub) ==
    [q |-> q, kind |-> kind, val |-> val, ub |-> ub, log |-> <<>>, seen |-> <<>>]

\* if (logger) { logger(text + std::to_string(n)); } at the end of a call
\* whose outcome so far is r
Notify(r, q, msg) ==
    IF q.logger
    THEN [r EXCEPT !.log = Append(@, msg), !.seen = Append(@, r.q)]
    ELSE r

\* ------------------------------------------------------------ the class
\* in-class initialisers front{}, rear{}, size{}, capacity{}, an empty arr and
\* an empty std::function
NoQueue == [arr |-> NewArr(0), front |-> 0, rear |-> 0, size |-> 0, capacity |-> 0,
            logger |-> FALSE]

is_full(q) == q.size = q.capacity

\* mutant: the emptiness test of the sentinel-index variant (front == -1)
is_empty_sentinel(q) == q.front = Sentinel

is_empty(q) == q.size = 0

get_size(q) == q.size

get_capacity(q) == q.capacity

\* circular_queue(int n, callback); callback is TRUE when a callable is passed,
\* FALSE for the default nullptr
construct(n, callback) ==
    IF n <= 0
    THEN Ret(NoQueue, "invalid_argument", 0, FALSE)
    ELSE Ret([arr |-> NewArr(n), front |-> Sentinel, rear |-> Sentinel,
              size |-> 0, capacity |-> n, logger |-> callback], "ok", 0, FALSE)

\* mutant: the full branch forgets size--
enqueue_no_decrement(q, value) ==
    LET q1 == IF is_full(q)
              THEN [q EXCEPT !.front = RemC(q.front + 1, q.capacity)]
              ELSE q
        q2 == IF is_empty(q1)
              THEN [q1 EXCEPT !.front = 0, !.rear = 0]
              ELSE [q1 EXCEPT !.rear = RemC(q1.rear + 1, q1.capacity)]
        q3 == [q2 EXCEPT !.arr = StoreArr(q2.arr, q2.rear, value),
                         !.size = q2.size + 1]
    IN  {Notify(Ret(q3, "ok", 0, q.capacity = 0), q,
                <<"Enqueued: ">> \o to_string(value))}

\* mutant: a full queue is rejected with the documented std::overflow_error
enqueue_throws_when_full(q, value) ==
    IF is_full(q)
    THEN {Ret(q, "overflow_error", 0, FALSE)}
    ELSE LET q2 == IF is_empty(q)
                   THEN [q EXCEPT !.front = 0, !.rear = 0]
                   ELSE [q EXCEPT !.rear = RemC(q.rear + 1, q.capacity)]
             q3 == [q2 EXCEPT !.arr = StoreArr(q2.arr, q2.rear, value),
                              !.size = q2.size + 1]
         IN  {Notify(Ret(q3, "ok", 0, q2.rear \notin DOMAIN q2.arr), q,
                     <<"Enqueued: ">> \o to_string(value))}

\* void enqueue(T value): the set of outcomes.  With capacity = 0 the first
\* statement executed is a % 0: either the division traps (the call never
\* returns) or the build goes on with RemC's value and writes past the array.
enqueue(q, value) ==
    LET q1 == IF is_full(q)
              THEN [q EXCEPT !.front = RemC(q.front + 1, q.capacity),
                             !.size = q.size - 1]
              ELSE q
        q2 == IF is_empty(q1)
              THEN [q1 EXCEPT !.front = 0, !.rear = 0]
              ELSE [q1 EXCEPT !.rear = RemC(q1.rear + 1, q1.capacity)]
        q3 == [q2 EXCEPT !.arr = StoreArr(q2.arr, q2.rear, value),
                         !.size = q2.size + 1]
        divByZero == q.capacity = 0 /\ (is_full(q) \/ ~is_empty(q1))
        oobWrite == q2.rear \notin DOMAIN q2.arr
        msg == <<"Enqueued: ">> \o to_string(value)
    IN  IF divByZero
        THEN {Ret(q, "trap", 0, TRUE), Notify(Ret(q3, "ok", 0, TRUE), q, msg)}
        ELSE {Notify(Ret(q3, "ok", 0, oobWrite), q, msg)}

\* mutant: the value returned is read at rear instead of front
dequeue_reads_rear(q) ==
    IF is_empty(q)
    THEN Ret(q, "underflow_error", 0, FALSE)
    ELSE LET value == ReadArr(q.arr, q.rear)
             q1 == IF q.front = q.rear
                   THEN [q EXCEPT !.front = Sentinel, !.rear = Sentinel]
                   ELSE [q EXCEPT !.front = RemC(q.front + 1, q.capacity)]
         IN  Notify(Ret([q1 EXCEPT !.size = q.size - 1], "ok", value,
                        OobRead(q.arr, q.rear)), q,
                    <<"Dequeued: ">> \o to_string(value))

\* mutant: the empty branch notifies the logger before it throws, as the
\* sentinel-index variant does before it returns
dequeue_logs_when_empty(q) ==
    IF is_empty(q)
    THEN Notify(Ret(q, "underflow_error", 0, FALSE), q,
                <<"Queue is empty! Cannot dequeue.">>)
    ELSE LET value == ReadArr(q.arr, q.front)
             q1 == IF q.front = q.rear
                   THEN [q EXCEPT !.front = Sentinel, !.rear = Sentinel]
                   ELSE [q EXCEPT !.front = RemC(q.front + 1, q.capacity)]
         IN  Notify(Ret([q1 EXCEPT !.size = q.size - 1], "ok", value,
                        OobRead(q.arr, q.front)), q,
                    <<"Dequeued: ">> \o to_string(value))

\* mutant: size-- is missing
dequeue_keeps_size(q) ==
    IF is_empty(q)
    THEN Ret(q, "underflow_error", 0, FALSE)
    ELSE LET value == ReadArr(q.arr, q.front)
             q1 == IF q.front = q.rear
                   THEN [q EXCEPT !.front = Sentinel, !.rear = Sentinel]
                   ELSE [q EXCEPT !.front = RemC(q.front + 1, q.capacity)]
         IN  Notify(Ret(q1, "ok", value, OobRead(q.arr, q.front)), q,
                    <<"Dequeued: ">> \o to_string(value))

\* T dequeue()
dequeue(q) ==
    IF is_empty(q)
    THEN Ret(q, "underflow_error", 0, FALSE)
    ELSE LET value == ReadArr(q.arr, q.front)
             q1 == IF q.front = q.rear
                   THEN [q EXCEPT !.front = Sentinel, !.rear = Sentinel]
                   ELSE [q EXCEPT !.front = RemC(q.front + 1, q.capacity)]
         IN  Notify(Ret([q1 EXCEPT !.size = q.size - 1], "ok", value,
                        OobRead(q.arr, q.front)), q,
                    <<"Dequeued: ">> \o to_string(value))

\* mutant: peek advances front as dequeue does
peek_advances_front(q) ==
    IF is_empty(q)
    THEN Ret(q, "underflow_error", 0, FALSE)
    ELSE Ret([q EXCEPT !.front = RemC(q.front + 1, q.capacity)], "ok",
             ReadArr(q.arr, q.front), OobRead(q.arr, q.front))

\* T peek() const
peek(q) ==
    IF is_empty(q)
    THEN Ret(q, "underflow_error", 0, FALSE)
    ELSE Ret(q, "ok", ReadArr(q.arr, q.front), OobRead(q.arr, q.front))

\* mutant: size = 0 sits inside the if (logger) block
clear_resets_size_when_logged(q) ==
    Notify(Ret([q EXCEPT !.front = Sentinel, !.rear = Sentinel,
                         !.size = IF q.logger THEN 0 ELSE q.size],
               "ok", 0, FALSE), q, <<"Queue cleared">>)

\* void clear()
clear(q) ==
    Notify(Ret([q EXCEPT !.front = Sentinel, !.rear = Sentinel, !.size = 0],
               "ok", 0, FALSE), q, <<"Queue cleared">>)

\* std::vector<T> get_all_elements() const: push_back of arr[(front+i) % capacity]
\* for i = 0..size-1 (element i of the vector is element i+1 of the sequence)
get_all_elements(q) ==
    [i \in 1..q.size |-> ReadArr(q.arr, RemC(q.front + (i - 1), q.capacity))]

\* mutant: the index is taken as a physical index (front is not added)
get_element_at_no_offset(q, index) ==
    IF index < 0 \/ index >= q.size
    THEN Ret(q, "out_of_range", 0, FALSE)
    ELSE Ret(q, "ok", ReadArr(q.arr, index), OobRead(q.arr, index))

\* T get_element_at(int index) const
get_element_at(q, index) ==
    IF index < 0 \/ index >= q.size
    THEN Ret(q, "out_of_range", 0, FALSE)
    ELSE LET p == RemC(q.front + index, q.capacity)
         IN  Ret(q, "ok", ReadArr(q.arr, p), OobRead(q.arr, p))

\* void resize(int new_capacity)
resize(q, new_capacity) ==
    IF new_capacity < q.size
    THEN Ret(q, "invalid_argument", 0, FALSE)
    ELSE LET new_arr == [i \in 0..(new_capacity - 1) |->
                            IF i < q.size
                            THEN ReadArr(q.arr, RemC(q.front + i, q.capacity))
                            ELSE DefaultT]
         IN  Notify(Ret([arr |-> new_arr, front |-> 0, rear |-> q.size - 1,
                         size |-> q.size, capacity |-> new_capacity,
                         logger |-> q.logger], "ok", 0,
                        \E i \in 0..(q.size - 1) :
                            OobRead(q.arr, RemC(q.front + i, q.capacity))), q,
                    <<"Queue resized to capacity: ">> \o to_string(new_capacity))

\* ------------------------------------------------ the sentinel-index class
\* the object before its constructor runs
NoSentinel == [arr |-> NewArr(0), front |-> 0, rear |-> 0, size |-> 0, logger |-> FALSE]

\* circular_queue<T>::circular_queue(const int n, callback): front(-1),
\* rear(-1), size(n), arr = new T[size] (the ints are left uninitialised)
sentinel_construct(n, callback) ==
    IF n < 0
    THEN Ret(NoSentinel, "bad_array_new_length", 0, FALSE)
    ELSE Ret([arr |-> [i \in 0..(n - 1) |-> Uninit], front |-> Sentinel,
              rear |-> Sentinel, size |-> n, logger |-> callback], "ok", 0, FALSE)

\* mutant: the ring test that keeps one slot free (full one element early)
sentinel_is_full_one_early(q) ==
    q.front # Sentinel /\ RemC(q.rear + 2, q.size) = q.front

\* bool is_full() const
sentinel_is_full(q) == RemC(q.rear + 1, q.size) = q.front

\* bool is_empty() const
sentinel_is_empty(q) == q.front = Sentinel

\* T dequeue(): on an empty queue it tells the logger and returns T()
sentinel_dequeue(q) ==
    IF sentinel_is_empty(q)
    THEN Notify(Ret(q, "ok", DefaultT, FALSE), q, <<"Queue is empty! Cannot dequeue.">>)
    ELSE LET value == ReadArr(q.arr, q.front)
             q1 == IF q.front = q.rear
                   THEN [q EXCEPT !.front = Sentinel, !.rear = Sentinel]
                   ELSE [q EXCEPT !.front = RemC(q.front + 1, q.size)]
         IN  Notify(Ret(q1, "ok", value,
                        OobRead(q.arr, q.front) \/ value = Uninit), q,
                    <<"Dequeued: ">> \o to_string(value))

\* mutant: a full queue is overwritten in place, front stays
sentinel_enqueue_no_evict(q, value) ==
    LET q1 == IF q.front = Sentinel THEN [q EXCEPT !.front = 0] ELSE q
        q2 == [q1 EXCEPT !.rear = RemC(q1.rear + 1, q1.size)]
        q3 == [q2 EXCEPT !.arr = StoreArr(q2.arr, q2.rear, value)]
    IN  Notify(Ret(q3, "ok", 0, q2.rear \notin DOMAIN q2.arr), q,
               <<"Enqueued: ">> \o to_string(value))

\* void enqueue(T value): if (is_full()) dequeue(); then insert at rear
sentinel_enqueue(q, value) ==
    LET d == IF sentinel_is_full(q) THEN sentinel_dequeue(q) ELSE Ret(q, "ok", 0, FALSE)
        q1 == IF d.q.front = Sentinel THEN [d.q EXCEPT !.front = 0] ELSE d.q
        q2 == [q1 EXCEPT !.rear = RemC(q1.rear + 1, q1.size)]
        q3 == [q2 EXCEPT !.arr = StoreArr(q2.arr, q2.rear, value)]
        r == Ret(q3, "ok", 0, d.ub \/ q2.rear \notin DOMAIN q2.arr)
    IN  Notify([r EXCEPT !.log = d.log, !.seen = d.seen], q,
               <<"Enqueued: ">> \o to_string(value))

\* The constructor accepts n = 0, and then size = 0 is the divisor of every
\* % size: the operation is undefined.  Either the division traps (the call
\* never returns, nothing is logged) or the build goes on with RemC's value.
\* dequeue() divides when it advances front, enqueue() already in is_full().
sentinel_dequeue_outcomes(q) ==
    IF q.size = 0 /\ ~sentinel_is_empty(q) /\ q.front # q.rear
    THEN {Ret(q, "trap", 0, TRUE), [sentinel_dequeue(q) EXCEPT !.ub = TRUE]}
    ELSE {sentinel_dequeue(q)}

sentinel_enqueue_outcomes(q, value) ==
    IF q.size = 0
    THEN {Ret(q, "trap", 0, TRUE), [sentinel_enqueue(q, value) EXCEPT !.ub = TRUE]}
    ELSE {sentinel_enqueue(q, value)}

\* T peek()
sentinel_peek(q) ==
    IF sentinel_is_empty(q)
    THEN Notify(Ret(q, "ok", DefaultT, FALSE), q, <<"Queue is empty! No front element.">>)
    ELSE LET value == ReadArr(q.arr, q.front)
         IN  Notify(Ret(q, "ok", value, OobRead(q.arr, q.front) \/ value = Uninit),
                    q, <<"Peeked at: ">> \o to_string(value))

\* void clear()
sentinel_clear(q) ==
    Notify(Ret([q EXCEPT !.front = Sentinel, !.rear = Sentinel], "ok", 0, FALSE),
           q, <<"Queue cleared.">>)

\* the elements display() walks through: from front, i = (i + 1) % size until
\* i == rear, then arr[rear]; at most n steps are followed
RECURSIVE sentinel_walk(_, _, _)
sentinel_walk(q, i, n) ==
    IF i = q.rear \/ n = 0
    THEN <<ReadArr(q.arr, q.rear)>>
    ELSE <<ReadArr(q.arr, i)>> \o sentinel_walk(q, RemC(i + 1, q.size), n - 1)

sentinel_elements(q) ==
    IF sentinel_is_empty(q) THEN <<>> ELSE sentinel_walk(q, q.front, q.size)

\* ------------------------------------------------------------ program state
VARIABLES
    st,         \* "none": no queue constructed; "live"; "crashed": killed by a trap
    arr, front, rear, size, capacity,      \* the fields of the queue
    logger,     \* the queue's logger member holds a callable
    op, arg, res,   \* the last call: its name, its argument, [kind, val] it produced
    notes,          \* the strings the last call handed to the logger, in order
    prevOp,         \* the call before the last one
    ub,             \* some call so far executed undefined behaviour
    ref, refCap,    \* reference bounded FIFO driven by the same calls
    sq,             \* the sentinel-index queue object (arr, front, rear, size, logger)
    sres, snotes,   \* what its last call produced and handed to its logger
    sseen           \* how many elements it held at each of those logger calls

vars == <<st, arr, front, rear, size, capacity, logger, op, arg, res, notes,
          prevOp, ub, ref, refCap, sq, sres, snotes, sseen>>

\* the queue object as a record
Q == [arr |-> arr, front |-> front, rear |-> rear, size |-> size,
      capacity |-> capacity, logger |-> logger]

Snapshot == get_all_elements(Q)

\* reference FIFO: append at the tail, dropping the oldest first when full
DropFirst(s) == SubSeq(s, 2, Len(s))
FifoPush(s, cap, v) == IF Len(s) >= cap THEN Append(DropFirst(s), v) ELSE Append(s, v)

Init ==
    /\ st = "none"
    /\ arr = NoQueue.arr /\ front = NoQueue.front /\ rear = NoQueue.rear
    /\ size = NoQueue.size /\ capacity = NoQueue.capacity
    /\ logger = NoQueue.logger
    /\ op = "none" /\ arg = 0 /\ res = [kind |-> "ok", val |-> 0]
    /\ notes = <<>>
    /\ prevOp = "none"
    /\ ub = FALSE
    /\ ref = <<>> /\ refCap = 0
    /\ sq = NoSentinel /\ sres = [kind |-> "ok", val |-> 0] /\ snotes = <<>>
    /\ sseen = <<>>

\* the effect of a call's outcome r on the object and on the call record
Apply(name, a, r) ==
    /\ arr' = r.q.arr /\ front' = r.q.front /\ rear' = r.q.rear
    /\ size' = r.q.size /\ capacity' = r.q.capacity /\ logger' = r.q.logger
    /\ op' = name /\ arg' = a /\ res' = [kind |-> r.kind, val |-> r.val]
    /\ notes' = r.log
    /\ ub' = (ub \/ r.ub)

\* ---- the calls on the queue (everything but the call history)
ConstructCall(n, callback) ==
    /\ st = "none"
    /\ LET r == construct(n, callback)
       IN  /\ Apply("construct", n, r)
           /\ st' = IF r.kind = "ok" THEN "live" ELSE "none"
           /\ ref' = <<>>
           /\ refCap' = IF r.kind = "ok" THEN n ELSE refCap

EnqueueCall(v) ==
    /\ st = "live"
    /\ front <= MaxWild + MaxCap
    /\ \E r \in enqueue(Q, v) :
           /\ Apply("enqueue", v, r)
           /\ st' = IF r.kind = "trap" THEN "crashed" ELSE "live"
    /\ ref' = FifoPush(ref, refCap, v)
    /\ UNCHANGED refCap

DequeueCall ==
    /\ st = "live"
    /\ LET r == dequeue(Q)
       IN  /\ Apply("dequeue", 0, r)
           /\ ref' = IF r.kind = "ok" THEN DropFirst(ref) ELSE ref
    /\ UNCHANGED <<st, refCap>>

PeekCall ==
    /\ st = "live"
    /\ Apply("peek", 0, peek(Q))
    /\ UNCHANGED <<st, ref, refCap>>

ClearCall ==
    /\ st = "live"
    /\ Apply("clear", 0, clear(Q))
    /\ ref' = <<>>
    /\ UNCHANGED <<st, refCap>>

GetElementAtCall(i) ==
    /\ st = "live"
    /\ Apply("get_element_at", i, get_element_at(Q, i))
    /\ UNCHANGED <<st, ref, refCap>>

ResizeCall(k) ==
    /\ st = "live"
    /\ LET r == resize(Q, k)
       IN  /\ Apply("resize", k, r)
           /\ refCap' = IF r.kind = "ok" THEN k ELSE refCap
    /\ UNCHANGED <<st, ref>>

\* the const getters: each returns a value computed from the object
GetterCall(name, value) ==
    /\ st = "live"
    /\ Apply(name, 0, Ret(Q, "ok", value, FALSE))
    /\ UNCHANGED <<st, ref, refCap>>

\* ---- a program that constructs the queue with the default callback
\* (nullptr) and remembers the call before the last one
Tracked == prevOp' = op /\ UNCHANGED <<sq, sres, snotes, sseen>>

Construct(n) == ConstructCall(n, FALSE) /\ Tracked

Enqueue(v) == EnqueueCall(v) /\ Tracked

Dequeue == DequeueCall /\ Tracked

Peek == PeekCall /\ Tracked

Clear == ClearCall /\ Tracked

GetElementAt(i) == GetElementAtCall(i) /\ Tracked

Resize(k) == ResizeCall(k) /\ Tracked

Next ==
    \/ \E n \in CapArgs : Construct(n)
    \/ \E v \in Values : Enqueue(v)
    \/ Dequeue
    \/ Peek
    \/ Clear
    \/ \E i \in CapArgs : GetElementAt(i)
    \/ \E k \in CapArgs : Resize(k)

Spec == Init /\ [][Next]_vars

\* ---- a program that constructs the queue with or without a logger and
\* also calls the getters
Untracked == UNCHANGED <<prevOp, sq, sres, snotes, sseen>>

LogConstruct(n, callback) == ConstructCall(n, callback) /\ Untracked

LogEnqueue(v) == EnqueueCall(v) /\ Untracked

LogDequeue == DequeueCall /\ Untracked

LogPeek == PeekCall /\ Untracked

LogClear == ClearCall /\ Untracked

LogGetElementAt(i) == GetElementAtCall(i) /\ Untracked

LogResize(k) == ResizeCall(k) /\ Untracked

LogGetAllElements == GetterCall("get_all_elements", get_all_elements(Q)) /\ Untracked

LogIsFull == GetterCall("is_full", is_full(Q)) /\ Untracked

LogIsEmpty == GetterCall("is_empty", is_empty(Q)) /\ Untracked

LogGetSize == GetterCall("get_size", get_size(Q)) /\ Untracked

LogGetCapacity == GetterCall("get_capacity", get_capacity(Q)) /\ Untracked

NextLog ==
    \/ \E n \in CapArgs, callback \in BOOLEAN : LogConstruct(n, callback)
    \/ \E v \in Values : LogEnqueue(v)
    \/ LogDequeue
    \/ LogPeek
    \/ LogClear
    \/ \E i \in CapArgs : LogGetElementAt(i)
    \/ \E k \in CapArgs : LogResize(k)
    \/ LogGetAllElements
    \/ LogIsFull
    \/ LogIsEmpty
    \/ LogGetSize
    \/ LogGetCapacity

SpecLog == Init /\ [][NextLog]_vars

\* ---- a program that holds one queue of each implementation, constructed
\* with the same arguments, and makes every call on both
SentinelApply(r) ==
    /\ sq' = r.q /\ sres' = [kind |-> r.kind, val |-> r.val] /\ snotes' = r.log
    /\ sseen' = [i \in 1..Len(r.seen) |-> Len(sentinel_elements(r.seen[i]))]
    /\ UNCHANGED prevOp

PairConstruct(n, callback) ==
    /\ ConstructCall(n, callback)
    /\ IF construct(n, callback).kind = "ok"
       THEN SentinelApply(sentinel_construct(n, callback))
       ELSE UNCHANGED <<prevOp, sq, sres, snotes, sseen>>

PairEnqueue(v) == EnqueueCall(v) /\ SentinelApply(sentinel_enqueue(sq, v))

PairDequeue == DequeueCall /\ SentinelApply(sentinel_dequeue(sq))

PairPeek == PeekCall /\ SentinelApply(sentinel_peek(sq))

PairClear == ClearCall /\ SentinelApply(sentinel_clear(sq))

NextPair ==
    \/ \E n \in CapArgs, callback \in BOOLEAN : PairConstruct(n, callback)
    \/ \E v \in Values : PairEnqueue(v)
    \/ PairDequeue
    \/ PairPeek
    \/ PairClear

SpecPair == Init /\ [][NextPair]_vars

\* ---- a program that holds one sentinel-index queue, constructed with any
\* int n the constructor accepts
SentinelCall(name, a, r) ==
    /\ SentinelApply(r)
    /\ op' = name /\ arg' = a
    /\ ub' = (ub \/ r.ub)
    /\ UNCHANGED <<arr, front, rear, size, capacity, logger, res, notes, ref, refCap>>

SentinelConstruct(n, callback) ==
    /\ st = "none"
    /\ LET r == sentinel_construct(n, callback)
       IN  /\ SentinelCall("construct", n, r)
           /\ st' = IF r.kind = "ok" THEN "live" ELSE "none"

SentinelEnqueue(v) ==
    /\ st = "live"
    /\ sq.rear <= MaxWild + MaxCap
    /\ \E r \in sentinel_enqueue_outcomes(sq, v) :
           /\ SentinelCall("enqueue", v, r)
           /\ st' = IF r.kind = "trap" THEN "crashed" ELSE "live"

SentinelDequeue ==
    /\ st = "live"
    /\ \E r \in sentinel_dequeue_outcomes(sq) :
           /\ SentinelCall("dequeue", 0, r)
           /\ st' = IF r.kind = "trap" THEN "crashed" ELSE "live"

SentinelPeek ==
    /\ st = "live"
    /\ SentinelCall("peek", 0, sentinel_peek(sq))
    /\ UNCHANGED st

SentinelClear ==
    /\ st = "live"
    /\ SentinelCall("clear", 0, sentinel_clear(sq))
    /\ UNCHANGED st

NextSentinel ==
    \/ \E n \in CapArgs, callback \in BOOLEAN : SentinelConstruct(n, callback)
    \/ \E v \in Values : SentinelEnqueue(v)
    \/ SentinelDequeue
    \/ SentinelPeek
    \/ SentinelClear

SpecSentinel == Init /\ [][NextSentinel]_vars

TypeOK ==
    /\ st \in {"none", "live", "crashed"}
    /\ capacity \in 0..MaxCap
    /\ DOMAIN arr = 0..(capacity - 1)
    /\ \A i \in DOMAIN arr : arr[i] \in {DefaultT} \cup Values
    /\ logger \in BOOLEAN

\* ------------------------------------------- comparing two queue objects
\* what the getters show of a queue
Obs(q) == [elements |-> get_all_elements(q), size |-> get_size(q),
           capacity |-> get_capacity(q), empty |-> is_empty(q), full |-> is_full(q)]

\* the calls a caller can make on a constructed queue
Calls ==
    [name : {"enqueue"}, arg : Values]
    \cup [name : {"dequeue", "peek", "clear"}, arg : {0}]
    \cup [name : {"get_element_at", "resize"}, arg : CapArgs]

\* the outcomes of call c on queue q
Do(q, c) ==
    CASE c.name = "enqueue" -> enqueue(q, c.arg)
      [] c.name = "dequeue" -> {dequeue(q)}
      [] c.name = "peek" -> {peek(q)}
      [] c.name = "clear" -> {clear(q)}
      [] c.name = "get_element_at" -> {get_element_at(q, c.arg)}
      [] c.name = "resize" -> {resize(q, c.arg)}

\* what the caller sees of an outcome
View(r) == [kind |-> r.kind, val |-> r.val, log |-> r.log, obs |-> Obs(r.q)]

\* q1 and q2 show the same and answer every sequence of at most d calls alike
RECURSIVE SameLater(_, _, _)
SameLater(q1, q2, d) ==
    /\ Obs(q1) = Obs(q2)
    /\ d > 0 =>
         \A c \in Calls :
            /\ {View(r) : r \in Do(q1, c)} = {View(r) : r \in Do(q2, c)}
            /\ \A r1 \in Do(q1, c), r2 \in Do(q2, c) :
                  (View(r1) = View(r2) /\ r1.kind # "trap")
                      => SameLater(r1.q, r2.q, d - 1)

\* ------------------------------------------------------------------ claims
\* While no call has executed undefined behaviour the queue is the reference
\* FIFO (the part of C1 the code does satisfy).
FifoWhileDefined == (st = "live" /\ ~ub) => (Snapshot = ref /\ get_size(Q) = Len(ref))

\* C1: after any sequence of enqueue, successful dequeue, clear and successful
\* resize calls on a constructed queue, get_all_elements() is the content of
\* the reference bounded FIFO and get_size() is its length.
C1_SnapshotIsBoundedFifo ==
    st # "none" => (st = "live" /\ Snapshot = ref /\ get_size(Q) = Len(ref))

\* C2: enqueue(v) on a full queue (size == capacity) leaves size == capacity,
\* makes the snapshot the old snapshot without its first element followed by
\* v, and v is the element at logical index size-1.
C2_FullEnqueueEvictsOldest ==
    [][(op' = "enqueue" /\ size = capacity) =>
          /\ st' = "live"
          /\ size' = capacity'
          /\ Snapshot' = Append(DropFirst(Snapshot), arg')
          /\ get_element_at(Q', size' - 1).kind = "ok"
          /\ get_element_at(Q', size' - 1).val = arg']_vars

\* C3: dequeue() and peek() called with size == 0 throw std::underflow_error
\* (they return no value), however the queue became empty.
C3_EmptyDequeuePeekThrow ==
    [][(op' \in {"dequeue", "peek"} /\ size = 0) =>
          res'.kind = "underflow_error"]_vars

\* C3 witness: a dequeue failed right after a dequeue drained the queue.
C3_Witness ==
    /\ op = "dequeue" /\ prevOp = "dequeue" /\ res.kind = "underflow_error"
    /\ \E i \in DOMAIN arr : arr[i] # DefaultT

\* C4: enqueue(v) always returns normally, without undefined behaviour, in
\* every state reachable from a validly constructed queue.
C4_EnqueueAlwaysSucceeds ==
    op = "enqueue" => (st = "live" /\ res.kind = "ok" /\ ~ub)

\* C5: in every reachable state 0 <= size <= capacity, is_empty() iff
\* size == 0 and is_full() iff size == capacity.
C5_SizeWithinCapacity ==
    st # "none" =>
        /\ 0 <= get_size(Q) /\ get_size(Q) <= get_capacity(Q)
        /\ is_empty(Q) <=> (size = 0)
        /\ is_full(Q) <=> (size = capacity)

\* C5 witness: a full queue of capacity >= 2 whose last enqueue overwrote the
\* oldest element (the content wraps around the end of the array).
C5_Witness ==
    /\ st = "live" /\ op = "enqueue" /\ capacity >= 2
    /\ size = capacity /\ front > rear

\* C6: construction with n <= 0 throws std::invalid_argument and leaves no
\* queue, and the capacity of a constructed queue is >= 1 in every state.
C6_CapacityAtLeastOne ==
    /\ (op = "construct" /\ arg <= 0) => (st = "none" /\ res.kind = "invalid_argument")
    /\ st # "none" => get_capacity(Q) >= 1

\* C7: resize(new_capacity) throws std::invalid_argument whenever
\* new_capacity < size and whenever new_capacity <= 0.
C7_ResizeRejectsInvalid ==
    [][(op' = "resize" /\ (arg' < size \/ arg' <= 0)) =>
          res'.kind = "invalid_argument"]_vars

\* C8: resize(k) with k < size throws and changes nothing; with k >= size it
\* keeps snapshot and size, sets capacity to k, and the next enqueue or
\* dequeue goes on in FIFO order.
C8_ResizePreservesContent ==
    [][/\ (op' = "resize" /\ arg' < size) =>
              /\ res'.kind = "invalid_argument"
              /\ capacity' = capacity /\ size' = size /\ Snapshot' = Snapshot
       /\ (op' = "resize" /\ arg' >= size) =>
              /\ res'.kind = "ok"
              /\ capacity' = arg' /\ size' = size /\ Snapshot' = Snapshot
       /\ (op = "resize" /\ res.kind = "ok" /\ op' = "enqueue") =>
              /\ st' = "live"
              /\ Snapshot' = FifoPush(Snapshot, capacity, arg')
       /\ (op = "resize" /\ res.kind = "ok" /\ op' = "dequeue" /\ size > 0) =>
              /\ res'.kind = "ok" /\ res'.val = Snapshot[1]
              /\ Snapshot' = DropFirst(Snapshot)]_vars

\* C9: on a non-empty queue peek() succeeds, and a dequeue() called right
\* after it returns the same value, the oldest element, takes exactly that
\* first element off the snapshot and lowers size by exactly one.
C9_PeekThenDequeue ==
    [][/\ (op' = "peek" /\ size > 0) =>
              (res'.kind = "ok" /\ res'.val = Snapshot[1])
       /\ (op = "peek" /\ op' = "dequeue" /\ size > 0) =>
              /\ res.kind = "ok" /\ res'.kind = "ok"
              /\ res'.val = res.val /\ res'.val = Snapshot[1]
              /\ size' = size - 1
              /\ Snapshot' = DropFirst(Snapshot)]_vars

\* C9 witness: a dequeue right after a peek succeeded on a queue whose
\* content wraps around the end of the array.
C9_Witness ==
    /\ op = "dequeue" /\ prevOp = "peek" /\ res.kind = "ok"
    /\ size >= 1 /\ front > rear

\* C10: get_element_at(i) returns get_all_elements()[i] for 0 <= i < size and
\* throws std::out_of_range for every other i.
C10_ElementAtMatchesSnapshot ==
    op = "get_element_at" =>
        IF 0 <= arg /\ arg < size
        THEN res.kind = "ok" /\ res.val = Snapshot[arg + 1]
        ELSE res.kind = "out_of_range"

\* C10 witness: an in-range read whose physical index wrapped past the end of
\* the array, of a slot that differs from the front element.
C10_Witness ==
    /\ op = "get_element_at" /\ res.kind = "ok" /\ arg > 0
    /\ front + arg >= capacity
    /\ res.val # arr[front]

\* C11: clear() from any reachable state gives is_empty(), get_size() == 0 and
\* an empty snapshot, keeps get_capacity(), and leaves a queue that answers
\* every later sequence of calls like a freshly constructed queue of that
\* capacity.
C11_ClearLikeFresh ==
    [][op' = "clear" =>
          /\ is_empty(Q') /\ get_size(Q') = 0 /\ Snapshot' = <<>>
          /\ get_capacity(Q') = get_capacity(Q)
          /\ LET fresh == construct(capacity', logger')
             IN  fresh.kind = "ok" /\ SameLater(Q', fresh.q, MaxLater)]_vars

\* The part of C11 the code does satisfy: the same for every capacity >= 1.
ClearLikeFreshFromOne ==
    [][(op' = "clear" /\ capacity >= 1) =>
          /\ is_empty(Q') /\ get_size(Q') = 0 /\ Snapshot' = <<>>
          /\ get_capacity(Q') = get_capacity(Q)
          /\ LET fresh == construct(capacity', logger')
             IN  fresh.kind = "ok" /\ SameLater(Q', fresh.q, MaxLater)]_vars

\* the calls that only read the queue
ReadOps == {"peek", "get_element_at", "get_all_elements", "is_full", "is_empty",
            "get_size", "get_capacity"}

\* C12: with a logger set, every enqueue, successful dequeue, clear and
\* successful resize hands the logger exactly one string, the one describing
\* that call, and every read-only call hands it none.
C12_OneNotificationPerMutation ==
    [][logger =>
          /\ op' = "enqueue" =>
                notes' = << <<"Enqueued: ">> \o to_string(arg') >>
          /\ (op' = "dequeue" /\ res'.kind = "ok") =>
                notes' = << <<"Dequeued: ">> \o to_string(res'.val) >>
          /\ op' = "clear" => notes' = << <<"Queue cleared">> >>
          /\ (op' = "resize" /\ res'.kind = "ok") =>
                notes' = << <<"Queue resized to capacity: ">> \o to_string(arg') >>
          /\ op' \in ReadOps => notes' = <<>>]_vars

\* The part of C12 the code does satisfy: the same for calls on a queue of
\* capacity >= 1.
OneNotificationFromOne ==
    [][(logger /\ capacity >= 1) =>
          /\ op' = "enqueue" =>
                notes' = << <<"Enqueued: ">> \o to_string(arg') >>
          /\ (op' = "dequeue" /\ res'.kind = "ok") =>
                notes' = << <<"Dequeued: ">> \o to_string(res'.val) >>
          /\ op' = "clear" => notes' = << <<"Queue cleared">> >>
          /\ (op' = "resize" /\ res'.kind = "ok") =>
                notes' = << <<"Queue resized to capacity: ">> \o to_string(arg') >>
          /\ op' \in ReadOps => notes' = <<>>]_vars

\* C13: a dequeue(), peek() or get_element_at(i) that throws leaves every
\* field and every stored element as before the call and hands nothing to the
\* logger, so the calls after it find the queue the failing call found.
C13_FailedCallIsNoOp ==
    [][(op' \in {"dequeue", "peek", "get_element_at"} /\ res'.kind # "ok") =>
          /\ Q' = Q
          /\ st' = st
          /\ notes' = <<>>]_vars

\* C13 witness: a dequeue threw on a drained queue that has a logger.
C13_Witness ==
    /\ op = "dequeue" /\ res.kind = "underflow_error" /\ logger
    /\ \E i \in DOMAIN arr : arr[i] # DefaultT

\* the queue without its logger
Strip(q) == [q EXCEPT !.logger = FALSE]

\* what a call's outcome is apart from the logger and what it was handed
Effect(r) == [kind |-> r.kind, val |-> r.val, q |-> Strip(r.q)]

\* C14: the logger has no effect on the queue: construction and every call
\* give the same result (value or error) and the same fields, hence the same
\* size, capacity and snapshot, on the queue with a logger as on the same queue
\* without; two queues driven by the same calls therefore agree at every step.
C14_LoggerHasNoEffect ==
    /\ \A n \in CapArgs : Effect(construct(n, TRUE)) = Effect(construct(n, FALSE))
    /\ st = "live" =>
          \A c \in Calls :
              {Effect(r) : r \in Do([Q EXCEPT !.logger = TRUE], c)}
                  = {Effect(r) : r \in Do(Strip(Q), c)}

\* C14 witness: a full, wrapped queue whose logger was just told of an
\* enqueue.
C14_Witness ==
    /\ st = "live" /\ logger /\ op = "enqueue" /\ notes # <<>>
    /\ size = capacity /\ front > rear

\* C19: every read-only call, whether it returns or throws, leaves front,
\* rear, size, capacity and every stored element unchanged.
C19_ReadsChangeNothing ==
    [][op' \in ReadOps => (Q' = Q /\ st' = st)]_vars

\* C19 witness: get_all_elements returned the content of a wrapped queue.
C19_Witness ==
    /\ op = "get_all_elements" /\ res.kind = "ok"
    /\ Len(res.val) >= 2 /\ front > rear

\* dequeue() called again and again, at most n times, until it throws: the
\* values returned and the queue left
RECURSIVE Drain(_, _)
Drain(q, n) ==
    IF n = 0
    THEN [vals |-> <<>>, q |-> q]
    ELSE LET r == dequeue(q)
         IN  IF r.kind # "ok"
             THEN [vals |-> <<>>, q |-> q]
             ELSE LET rest == Drain(r.q, n - 1)
                  IN  [vals |-> <<r.val>> \o rest.vals, q |-> rest.q]

\* C20: from any reachable state with get_size() == s, dequeue() called
\* repeatedly succeeds exactly s times, returns the snapshot's elements oldest
\* first, leaves is_empty() true, and then throws.
C20_DrainReachesEmpty ==
    st = "live" =>
        LET d == Drain(Q, size + 1)
        IN  /\ Len(d.vals) = size
            /\ d.vals = Snapshot
            /\ is_empty(d.q)
            /\ dequeue(d.q).kind = "underflow_error"

\* C20 witness: two dequeues in a row succeeded and the second one emptied a
\* queue of capacity >= 2.
C20_Witness ==
    /\ op = "dequeue" /\ prevOp = "dequeue" /\ res.kind = "ok"
    /\ is_empty(Q) /\ capacity >= 2 /\ res.val # DefaultT

\* the logical front-to-rear content of the sentinel-index queue
SentinelContent == sentinel_elements(sq)

\* No call of the paired program reads a slot that was never written.
PairReadsWrittenSlots ==
    /\ \A i \in 1..Len(SentinelContent) : SentinelContent[i] # Uninit
    /\ sres.val # Uninit

\* C15: the count-based and the sentinel-index queue, constructed with the
\* same n >= 1 and given the same enqueue, dequeue, peek and clear calls,
\* agree at every step on is_empty(), is_full() and the front-to-rear
\* content, and on the value of every dequeue and peek of a non-empty queue.
C15_ImplementationsAgree ==
    st = "live" =>
        /\ is_empty(Q) = sentinel_is_empty(sq)
        /\ is_full(Q) = sentinel_is_full(sq)
        /\ Snapshot = SentinelContent
        /\ (op \in {"dequeue", "peek"} /\ res.kind = "ok") =>
               (sres.kind = "ok" /\ sres.val = res.val)

\* C15 witness: both queues are full and wrapped after an enqueue that
\* overwrote the oldest element, and the sentinel one evicted it by dequeue().
C15_Witness ==
    /\ st = "live" /\ op = "enqueue" /\ capacity >= 2
    /\ size = capacity /\ front > rear /\ sq.front > sq.rear
    /\ Len(snotes) >= 2

C17_SentinelEmptyThrows ==
    [][(op' \in {"dequeue", "peek"} /\ sentinel_is_empty(sq)) =>
          sres'.kind # "ok"]_vars

\* C18 as stated: a sentinel-index queue constructed with n never holds more
\* than n-1 elements, and is_full() is true once n-1 are stored.
C18_SentinelWastesSlot ==
    (st = "live" /\ sq.size >= 1) =>
        /\ Len(SentinelContent) <= sq.size - 1
        /\ Len(SentinelContent) = sq.size - 1 => sentinel_is_full(sq)

\* C18 amended: a sentinel-index queue constructed with n >= 1 holds up to n
\* elements: is_full() is true exactly when n elements are stored, and an
\* enqueue evicts the oldest element only then.
C18_SentinelUsesEverySlot ==
    [][(st' = "live" /\ sq'.size >= 1) =>
          /\ Len(SentinelContent') <= sq'.size
          /\ sentinel_is_full(sq') <=> (Len(SentinelContent') = sq'.size)
          /\ op' = "enqueue" =>
                Len(SentinelContent') =
                    IF Len(SentinelContent) = sq.size
                    THEN sq.size
                    ELSE Len(SentinelContent) + 1]_vars

\* C18 witness: a sentinel-index queue constructed with n >= 2 holds n
\* elements.
C18_Witness ==
    /\ st = "live" /\ sq.size >= 2
    /\ Len(SentinelContent) = sq.size /\ sentinel_is_full(sq)

\* what the logger of the sentinel-index queue must have received from
\* enqueue(v) made on queue q, and how many elements q held at the first call
EnqueuedNote(v) == <<"Enqueued: ">> \o to_string(v)
DequeuedNote(q) == <<"Dequeued: ">> \o to_string(ReadArr(q.arr, q.front))
HoldsCapacity(q) == Len(sentinel_elements(q)) = q.size
EnqueueNotifiedAsStated(q, v, notes2, seen2) ==
    IF HoldsCapacity(q)
    THEN /\ notes2 = <<DequeuedNote(q), EnqueuedNote(v)>>
         /\ Len(seen2) = 2 /\ seen2[1] = q.size - 1
    ELSE notes2 = <<EnqueuedNote(v)>>

\* C21: sentinel-index queue with a logger set: enqueue(v) on a full queue
\* hands the logger exactly "Dequeued: <oldest>" and then "Enqueued: <v>",
\* the queue holding capacity - 1 elements at the first of the two calls;
\* enqueue(v) on a queue that is not full hands it exactly "Enqueued: <v>".
C21_FullEnqueueNotifiesTwice ==
    [][(op' = "enqueue" /\ sq.logger) =>
          EnqueueNotifiedAsStated(sq, arg', snotes', sseen')]_vars

\* the same statement for the queues constructed with n >= 1
TwoNotificationsFromOne ==
    [][(op' = "enqueue" /\ sq.logger /\ sq.size >= 1) =>
          EnqueueNotifiedAsStated(sq, arg', snotes', sseen')]_vars

\* a full queue of n >= 2 got an enqueue and its logger was called twice
TwoNotificationsReached ==
    /\ op = "enqueue" /\ sq.size >= 2 /\ Len(snotes) = 2 /\ sseen = <<sq.size - 1, sq.size>>

\* the array indices the calls of the count-based queue use
InArray(q, i) == i \in 0..(q.capacity - 1) /\ i \in DOMAIN q.arr
LogicalSlotsInArray(q) ==
    \A i \in 0..(q.size - 1) : InArray(q, RemC(q.front + i, q.capacity))

\* every state with size > 0 has front and rear inside the array and rear at
\* (front + size - 1) mod capacity; -1 is in front or rear only with size = 0
IndicesConsistent(q) ==
    /\ q.size > 0 =>
           /\ 0 <= q.front /\ q.front < q.capacity
           /\ 0 <= q.rear /\ q.rear < q.capacity
           /\ q.rear = RemC(q.front + q.size - 1, q.capacity)
    /\ (q.front = Sentinel \/ q.rear = Sentinel) => q.size = 0

\* the step made a call that returned normally and used array indices inside
\* [0, capacity) only, and left consistent indices
StepInsideArray ==
    /\ st' = "live" => IndicesConsistent(Q') /\ LogicalSlotsInArray(Q')
    /\ (op' = "enqueue" /\ res'.kind = "ok") => InArray(Q', rear')
    /\ (op' \in {"dequeue", "peek"} /\ res'.kind = "ok") => InArray(Q, front)
    /\ (op' = "get_element_at" /\ res'.kind = "ok") =>
           InArray(Q, RemC(front + arg', capacity))
    /\ (op' = "resize" /\ res'.kind = "ok") => LogicalSlotsInArray(Q)

\* C22: count-based queue: every reachable state with size > 0 has
\* 0 <= front < capacity, 0 <= rear < capacity and
\* rear = (front + size - 1) mod capacity, every array read and write of
\* enqueue, dequeue, peek, get_element_at, get_all_elements and resize uses an
\* index inside [0, capacity), and -1 is in front or rear only while size = 0.
C22_IndicesInsideArray == [][StepInsideArray]_vars

\* the same statement for the calls made on a queue of capacity >= 1 that
\* leave it with capacity >= 1
IndicesInsideArrayFromOne ==
    [][(capacity >= 1 /\ capacity' >= 1) => StepInsideArray]_vars

\* a wrapped queue (rear before front) of capacity >= 3 after an enqueue
WrappedQueueReached ==
    /\ st = "live" /\ op = "enqueue" /\ capacity >= 3 /\ size >= 2 /\ rear < front
====
